---- MODULE Spec2Model ----
(***************************************************************************)
(* A model of bilibili-captcha: the dataset manager (dataset_manager.py)   *)
(* and the model cache of the learner (captcha_learn.py).                  *)
(*                                                                         *)
(* Characters are small integers: a positive integer c is an alphabet      *)
(* character in canonical case, -c is its other-case variant, and 0 is the *)
(* digit "0", which is no alphabet character.  A string is a sequence of   *)
(* characters, so Python's string order is the lexicographic order of the  *)
(* sequences.  File contents are opaque image values.                      *)
(***************************************************************************)
EXTENDS Integers, Sequences, FiniteSets, TLC

----------------------------------------------------------------------------
(* Bounds of the model. *)

\* number of distinct labels the operator types during acquisition
MaxLabels == 2
\* largest num passed to fetch_training_set / fetch_test_set
MaxNum == 2
\* invalid inputs typed for one image before the operator gives up typing them
MaxInvalid == 1
\* number of classifiers trained in one process
MaxClassifiers == 3

----------------------------------------------------------------------------
(* The CAPTCHA provider (captcha_provider.KuaiZhanCaptchaProvider).        *)

chars == <<1, 2>>

seq_length == 2

Chars == {chars[k] : k \in 1..Len(chars)}

\* every string is_valid_seq accepts
Labels == [1..seq_length -> Chars]

canonicalize_seq(s) == [k \in DOMAIN s |-> IF s[k] < 0 THEN 0 - s[k] ELSE s[k]]

is_valid_seq(s) == Len(s) = seq_length /\ \A k \in DOMAIN s : s[k] \in Chars

\* the image contents provider.fetch() may return
Images == {"imgA", "imgB"}

NoFile == "none"

----------------------------------------------------------------------------
(* Constants of dataset_manager.py. *)

_SEQ_SKIP == <<0>>

TRAINING == "training"

TEST == "test"

----------------------------------------------------------------------------
(* Strings and lists. *)

Range(q) == {q[k] : k \in DOMAIN q}

\* a < b for Python strings
StrLess(a, b) ==
    \E k \in 1..(Len(a) + 1) :
        /\ k <= Len(b)
        /\ \A j \in 1..(k - 1) : a[j] = b[j]
        /\ (k = Len(a) + 1 \/ a[k] < b[k])

RECURSIVE Insert(_, _)
Insert(q, x) ==
    IF q = <<>> THEN <<x>>
    ELSE IF StrLess(x, Head(q)) THEN <<x>> \o q
    ELSE <<Head(q)>> \o Insert(Tail(q), x)

\* list.sort() of a list of strings
RECURSIVE Sort(_)
Sort(q) == IF q = <<>> THEN <<>> ELSE Insert(Sort(Tail(q)), Head(q))

IsSorted(q) == \A j, k \in DOMAIN q : j < k => ~StrLess(q[k], q[j])

NoDuplicates(q) == \A j, k \in DOMAIN q : j # k => q[j] # q[k]

\* the orders in which os.listdir may list the files of a set
RECURSIVE ListOrders(_)
ListOrders(S) ==
    IF S = {} THEN {<<>>}
    ELSE UNION {{<<x>> \o q : q \in ListOrders(S \ {x})} : x \in S}

----------------------------------------------------------------------------
VARIABLES
    training_set,    \* _training_set_dir: label -> content of {label}.png, or NoFile
    test_set,        \* _test_set_dir: label -> content of {label}.png, or NoFile
    training_char,   \* the per-character stores: set of <<char, sequence, position>>
    ledgerState,     \* partition.json: "missing", "corrupt" or "ok"
    json_dict,       \* the content of partition.json when it is "ok"
    run,             \* the latest call of partition_training_images_to_chars
    segmented,       \* labels handed to recognizer.partition in that call
    written,         \* character files written in that call
    nWritten,        \* number of mpimg.imsave calls in that call
    processed,       \* labels processed since the ledger lists were last reset
    fpc,             \* _fetch_captchas_to_dir: "idle", "prompt" or "done"
    directory,       \* its target store
    left,            \* iterations of its for loop after the current one
    img,             \* the image of the current iteration
    seq,             \* its local seq
    nInvalid,        \* invalid inputs in the current iteration
    preceding,       \* invalid inputs typed for its image before the latest input
    rawIsSkip,       \* the latest input was the literal "0"
    calls,           \* provider calls made on the latest input
    saved,           \* paths mpimg.imsave wrote for the latest input
    _classifier,     \* captcha_learn._classifier
    _predict_model,  \* captcha_learn._predict_model: the classifier it was compiled from
    best_model,      \* the file _best_model_path
    writable,        \* whether _best_model_path can be opened for writing
    nextId,          \* the next classifier _construct_mlp returns
    mop,             \* the latest call into captcha_learn and how it ended
    trained,         \* the classifier the latest reconstruct_model trained
    used,            \* the classifier the latest predict computed with
    _fail_char_set,  \* dataset_manager._fail_char_set: the stems of fail_char.txt
    request,         \* the latest call of get_training_char_images
    images,          \* the files whose images that call returned, in order
    tpc,             \* _construct_mlp's training loop: "idle", "while", "for", "done"
    n_epochs,        \* its parameter n_epochs
    n_train_batches, \* its n_train_batches
    validation_frequency,   \* its validation_frequency
    patience,        \* its patience
    best_validation_loss,   \* its best_validation_loss, in thousandths
    epoch,           \* its epoch
    minibatch_index, \* its minibatch_index
    done_looping,    \* its done_looping
    updates          \* calls of train_model so far

dataVars == <<training_set, test_set, training_char, ledgerState, json_dict>>

runVars == <<run, segmented, written, nWritten, processed>>

fetchVars == <<fpc, directory, left, img, seq, nInvalid, preceding, rawIsSkip, calls,
               saved>>

modelVars == <<_classifier, _predict_model, best_model, writable, nextId, mop,
               trained, used>>

imageVars == <<_fail_char_set, request, images>>

trainVars == <<tpc, n_epochs, n_train_batches, validation_frequency, patience,
               best_validation_loss, epoch, minibatch_index, done_looping, updates>>

libVars == <<imageVars, trainVars>>

vars == <<dataVars, runVars, fetchVars, modelVars, libVars>>

----------------------------------------------------------------------------
(* The partition ledger. *)

\* json_dict['#' + char] = [0, 0] for every char
ZeroCounters == [c \in Chars |-> <<0, 0>>]

\* json_dict = {}: keys says whether the lists and counters are there
EmptyDict ==
    [keys |-> FALSE, fail |-> <<>>, success |-> <<>>, num |-> ZeroCounters,
     total |-> 0, nfail |-> 0, nsuccess |-> 0, rate |-> 0]

NoRun == [kind |-> "none", force_update |-> FALSE, save |-> FALSE, rebuilt |-> FALSE]

\* _list_basename(_training_set_dir), as a set
TrainingLabels == {l \in Labels : training_set[l] # NoFile}

\* '{:.3%}'.format(s / t if t else 0), in thousandths of a percent
SuccessRate(s, t) == IF t = 0 THEN 0 ELSE (200000 * s + t) \div (2 * t)

\* the file {sequence}.{i}.png in the directory of char
_get_training_char_path(char, s, i) == <<char, s, i>>

\* a reset that empties the lists and keeps the counters
ResetDictListsOnly(jd) == [jd EXCEPT !.keys = TRUE, !.fail = <<>>, !.success = <<>>]

\* lines 224-228: the reset force_update makes
ResetDict(jd) ==
    [jd EXCEPT !.keys = TRUE, !.fail = <<>>, !.success = <<>>, !.num = ZeroCounters]

\* a filter that lets every sequence through
seq_filter_all(s, old_seq_set) == TRUE

\* lines 233-234
seq_filter(s, old_seq_set) == s \notin old_seq_set

\* a count that puts a failure on the success counter
CountCharFailAsSuccess(pair, success) ==
    IF success THEN <<pair[1] + 1, pair[2] + 1>> ELSE <<pair[1] + 1, pair[2]>>

\* lines 253-254 and 263: one character of a sequence counted
CountChar(pair, success) ==
    IF success THEN <<pair[1] + 1, pair[2] + 1>> ELSE <<pair[1], pair[2] + 1>>

\* a save that does not look at save
SaveCharImageAlways(st, save, char, s, i) ==
    [st EXCEPT !.written = @ \cup {_get_training_char_path(char, s, i)},
               !.nWritten = @ + 1]

\* lines 255-258: the character image is saved when save is set
SaveCharImage(st, save, char, s, i) ==
    IF save
    THEN [st EXCEPT !.written = @ \cup {_get_training_char_path(char, s, i)},
                    !.nWritten = @ + 1]
    ELSE st

\* lines 251-258 and 261-263: for i in range(seq_length)
RECURSIVE CharLoop(_, _, _, _, _)
CharLoop(st, s, i, success, save) ==
    IF i > seq_length THEN st
    ELSE LET char == s[i]
             counted == [st EXCEPT !.jd.num[char] = CountChar(@, success)]
             after == IF success THEN SaveCharImage(counted, save, char, s, i)
                      ELSE counted
         IN  CharLoop(after, s, i + 1, success, save)

\* lines 242-263: one sequence segmented and recorded
ProcessSeq(st, s, success, save) ==
    LET listed == IF success
                  THEN [st EXCEPT !.jd.success = Append(@, s)]
                  ELSE [st EXCEPT !.jd.fail = Append(@, s)]
        noted == [listed EXCEPT !.segmented = @ \cup {s}, !.processed = @ \cup {s}]
    IN  CharLoop(noted, s, 1, success, save)

\* lines 241-263: for n in range(num_update); ok holds the sequences the
\* recognizer segments
RECURSIVE ProcessLoop(_, _, _, _, _)
ProcessLoop(st, seqs, n, ok, save) ==
    IF n > Len(seqs) THEN st
    ELSE ProcessLoop(ProcessSeq(st, seqs[n], seqs[n] \in ok, save), seqs, n + 1, ok, save)

\* aggregate counts that take the ledger's lists for the training store
FinishCountsLedger(jd, num_total) ==
    LET num_total_success == Len(jd.success)
        listed == Len(jd.success) + Len(jd.fail)
    IN  [jd EXCEPT !.total = listed,
                   !.nfail = listed - num_total_success,
                   !.nsuccess = num_total_success,
                   !.rate = SuccessRate(num_total_success, listed),
                   !.fail = Sort(jd.fail),
                   !.success = Sort(jd.success)]

\* lines 265-272: the aggregate counts and the sorted lists
Finish(jd, num_total) ==
    LET num_total_success == Len(jd.success)
    IN  [jd EXCEPT !.total = num_total,
                   !.nfail = num_total - num_total_success,
                   !.nsuccess = num_total_success,
                   !.rate = SuccessRate(num_total_success, num_total),
                   !.fail = Sort(jd.fail),
                   !.success = Sort(jd.success)]

\* a load whose failure leaves force_update as the caller passed it
LoadLedgerKeepFlag(force_update) ==
    IF ledgerState = "ok"
    THEN [json_dict |-> json_dict, force_update |-> force_update]
    ELSE [json_dict |-> EmptyDict, force_update |-> force_update]

\* lines 216-223: the ledger loaded; a failure to load forces the update
LoadLedger(force_update) ==
    IF ledgerState = "ok"
    THEN [json_dict |-> json_dict, force_update |-> force_update]
    ELSE [json_dict |-> EmptyDict, force_update |-> TRUE]

\* lines 216-237: the ledger loaded and reset, the training store listed in the
\* order listing and filtered; line 231 raises KeyError on a dict without keys
PartitionStart(force_update, listing) ==
    LET loaded == LoadLedger(force_update)
        force == loaded.force_update
        jd1 == IF force THEN ResetDict(loaded.json_dict) ELSE loaded.json_dict
        old_seq_set == Range(jd1.fail \o jd1.success)
    IN  [jd |-> jd1,
         raised |-> ~jd1.keys,
         num_total |-> Len(listing),
         seqs |-> SelectSeq(listing, LAMBDA s : seq_filter(s, old_seq_set)),
         processed |-> IF force THEN {} ELSE processed]

\* lines 238-272: the sequences of start.seqs processed, ok being those the
\* recognizer segments, and the ledger completed
PartitionResult(start, save, ok) ==
    LET st0 == [jd |-> start.jd, segmented |-> {}, written |-> {}, nWritten |-> 0,
                processed |-> start.processed]
        st1 == ProcessLoop(st0, start.seqs, 1, ok, save)
    IN  [st1 EXCEPT !.jd = Finish(@, start.num_total)]

\* lines 212-296; the ledger is written at lines 273-278
partition_training_images_to_chars(force_update, save) ==
    /\ fpc = "idle"
    /\ \E listing \in ListOrders(TrainingLabels) :
       \E start \in {PartitionStart(force_update, listing)} :
       \E ok \in SUBSET Range(start.seqs) :
       \E st \in {PartitionResult(start, save, ok)} :
          IF start.raised
          THEN /\ run' = [kind |-> "raised", force_update |-> force_update,
                          save |-> save, rebuilt |-> ledgerState # "ok"]
               /\ segmented' = {}
               /\ written' = {}
               /\ nWritten' = 0
               /\ UNCHANGED <<json_dict, ledgerState, training_char, processed>>
          ELSE /\ json_dict' = st.jd
               /\ ledgerState' = "ok"
               /\ training_char' = training_char \cup st.written
               /\ segmented' = st.segmented
               /\ written' = st.written
               /\ nWritten' = st.nWritten
               /\ processed' = st.processed
               /\ run' = [kind |-> "partition", force_update |-> force_update,
                          save |-> save, rebuilt |-> ledgerState # "ok"]
    /\ UNCHANGED <<training_set, test_set, fetchVars, modelVars, libVars>>

\* lines 301-320: every run of the grid is made with force_update=True and
\* save=False, so each resets the ledger and writes no file, and the state the
\* grid search leaves is that of the last run it completed, whose recognizer
\* segments the labels of ok
tune_partition_parameter ==
    /\ fpc = "idle"
    /\ \E listing \in ListOrders(TrainingLabels) :
       \E start \in {PartitionStart(TRUE, listing)} :
       \E ok \in SUBSET Range(start.seqs) :
       \E st \in {PartitionResult(start, FALSE, ok)} :
          /\ json_dict' = st.jd
          /\ ledgerState' = "ok"
          /\ training_char' = training_char \cup st.written
          /\ segmented' = st.segmented
          /\ written' = st.written
          /\ nWritten' = st.nWritten
          /\ processed' = st.processed
          /\ run' = [kind |-> "tune", force_update |-> TRUE, save |-> FALSE,
                     rebuilt |-> ledgerState # "ok"]
    /\ UNCHANGED <<training_set, test_set, fetchVars, modelVars, libVars>>

\* the latest partition run is forgotten when anything else happens
ForgetRun ==
    /\ run' = NoRun
    /\ segmented' = {}
    /\ written' = {}
    /\ nWritten' = 0
    /\ UNCHANGED processed

clear_dir(store) == [l \in DOMAIN store |-> NoFile]

clear_training_set ==
    /\ fpc = "idle"
    /\ training_set' = clear_dir(training_set)
    /\ ForgetRun
    /\ UNCHANGED <<test_set, training_char, ledgerState, json_dict, fetchVars, modelVars, libVars>>

clear_training_chars ==
    /\ fpc = "idle"
    /\ training_char' = {f \in training_char : f[1] \notin Chars}
    /\ ForgetRun
    /\ UNCHANGED <<training_set, test_set, ledgerState, json_dict, fetchVars, modelVars, libVars>>

clear_test_set ==
    /\ fpc = "idle"
    /\ test_set' = clear_dir(test_set)
    /\ ForgetRun
    /\ UNCHANGED <<training_set, training_char, ledgerState, json_dict, fetchVars,
                   modelVars, libVars>>

clear_dataset ==
    /\ fpc = "idle"
    /\ training_set' = clear_dir(training_set)
    /\ training_char' = {f \in training_char : f[1] \notin Chars}
    /\ test_set' = clear_dir(test_set)
    /\ ForgetRun
    /\ UNCHANGED <<ledgerState, json_dict, fetchVars, modelVars, libVars>>

\* partition.json is deleted or damaged outside the program
LedgerLost(how) ==
    /\ fpc = "idle"
    /\ ledgerState = "ok"
    /\ ledgerState' = how
    /\ json_dict' = EmptyDict
    /\ run' = NoRun
    /\ segmented' = {}
    /\ written' = {}
    /\ nWritten' = 0
    /\ processed' = {}
    /\ UNCHANGED <<training_set, test_set, training_char, fetchVars, modelVars, libVars>>

----------------------------------------------------------------------------
(* Acquisition: _fetch_captchas_to_dir. *)

\* a label's place among the labels, the greatest first
LabelRank(l) == Cardinality({m \in Labels : StrLess(l, m)}) + 1

\* the labels the operator types
InputLabels == {l \in Labels : LabelRank(l) <= MaxLabels}

\* what the operator types: the skip literal, labels in canonical and in other
\* case, strings that are too short and strings with a foreign character
RawInputs ==
    {_SEQ_SKIP}
        \cup InputLabels
        \cup {[k \in DOMAIN l |-> 0 - l[k]] : l \in InputLabels}
        \cup {[l EXCEPT ![1] = 0 - l[1]] : l \in InputLabels}
        \cup {Tail(l) : l \in InputLabels}
        \cup {[l EXCEPT ![1] = 0] : l \in InputLabels}

Store(d) == IF d = TRAINING THEN training_set ELSE test_set

\* line 78 and line 85
IsSkip(s) == s = _SEQ_SKIP

\* line 89: os.path.isfile(path)
FileExists(store, s) == s \in DOMAIN store /\ store[s] # NoFile

\* line 92: mpimg.imsave(path, img)
SaveImage(store, s, image) == [l \in DOMAIN store \cup {s} |-> IF l = s THEN image ELSE store[l]]

\* code after the while loop that saves without looking for the file
AfterLoopOverwrite(store, s, image, called) ==
    IF IsSkip(s)
    THEN [seq |-> s, again |-> FALSE, store |-> store, calls |-> called, saved |-> {}]
    ELSE [seq |-> s, again |-> FALSE, store |-> SaveImage(store, s, image),
          calls |-> called, saved |-> {s}]

\* lines 85-92: the code after the while loop
AfterLoop(store, s, image, called) ==
    IF IsSkip(s)
    THEN [seq |-> s, again |-> FALSE, store |-> store, calls |-> called, saved |-> {}]
    ELSE IF FileExists(store, s)
    THEN [seq |-> s, again |-> FALSE, store |-> store, calls |-> called, saved |-> {}]
    ELSE [seq |-> s, again |-> FALSE, store |-> SaveImage(store, s, image),
          calls |-> called, saved |-> {s}]

\* an input handled with the skip test made on the canonical form
HandleInputCanonicalFirst(store, raw, image) ==
    LET s == canonicalize_seq(raw)
        called == <<"canonicalize_seq", "is_valid_seq">>
    IN  IF IsSkip(s)
        THEN AfterLoop(store, s, image, <<"canonicalize_seq">>)
        ELSE IF ~is_valid_seq(s)
        THEN [seq |-> s, again |-> TRUE, store |-> store, calls |-> called,
              saved |-> {}]
        ELSE AfterLoop(store, s, image, called)

\* lines 75-92: one input of the operator handled
HandleInput(store, raw, image) ==
    IF IsSkip(raw)
    THEN AfterLoop(store, raw, image, <<>>)
    ELSE LET s == canonicalize_seq(raw)
             called == <<"canonicalize_seq", "is_valid_seq">>
         IN  IF ~is_valid_seq(s)
             THEN [seq |-> s, again |-> TRUE, store |-> store, calls |-> called,
                   saved |-> {}]
             ELSE AfterLoop(store, s, image, called)

NoSeq == <<>>

FetchLocalsCleared ==
    /\ directory' = TRAINING
    /\ left' = 0
    /\ img' = NoFile
    /\ seq' = NoSeq
    /\ nInvalid' = 0
    /\ preceding' = 0
    /\ rawIsSkip' = FALSE
    /\ calls' = <<>>
    /\ saved' = {}

\* lines 60-72: the call and the first image
FetchStart(d, num) ==
    /\ fpc = "idle"
    /\ directory' = d
    /\ IF num = 0
       THEN /\ fpc' = "done"
            /\ UNCHANGED <<left, img>>
       ELSE /\ fpc' = "prompt"
            /\ left' = num - 1
            /\ img' \in Images
    /\ UNCHANGED <<seq, nInvalid, preceding, rawIsSkip, calls, saved>>
    /\ ForgetRun
    /\ UNCHANGED <<dataVars, modelVars, libVars>>

fetch_training_set(num) == FetchStart(TRAINING, num)

fetch_test_set(num) == FetchStart(TEST, num)

\* lines 74-92 and the start of the next iteration (lines 63-72)
Input(raw) ==
    /\ fpc = "prompt"
    /\ LET r == HandleInput(Store(directory), raw, img)
       IN  /\ r.again => nInvalid < MaxInvalid
           /\ seq' = r.seq
           /\ calls' = r.calls
           /\ saved' = r.saved
           /\ rawIsSkip' = (raw = _SEQ_SKIP)
           /\ preceding' = nInvalid
           /\ IF directory = TRAINING
              THEN training_set' = r.store /\ UNCHANGED test_set
              ELSE test_set' = r.store /\ UNCHANGED training_set
           /\ IF r.again
              THEN /\ nInvalid' = nInvalid + 1
                   /\ UNCHANGED <<fpc, left, img>>
              ELSE /\ nInvalid' = 0
                   /\ IF left > 0
                      THEN /\ left' = left - 1
                           /\ img' \in Images
                           /\ UNCHANGED fpc
                      ELSE /\ fpc' = "done"
                           /\ UNCHANGED <<left, img>>
    /\ UNCHANGED <<directory, training_char, ledgerState, json_dict, runVars, modelVars, libVars>>

\* line 93: the loop is over and the call returns
FetchReturn ==
    /\ fpc = "done"
    /\ fpc' = "idle"
    /\ FetchLocalsCleared
    /\ UNCHANGED <<dataVars, runVars, modelVars, libVars>>

\* a whole call fetch_training_set(1) in which the operator types raw at once
AcquireTrainingImage(raw, image) ==
    /\ fpc = "idle"
    /\ LET r == HandleInput(training_set, raw, image)
       IN  /\ ~r.again
           /\ training_set' = r.store
    /\ ForgetRun
    /\ UNCHANGED <<test_set, training_char, ledgerState, json_dict, fetchVars, modelVars, libVars>>

----------------------------------------------------------------------------
(* The model cache of captcha_learn.py.  A classifier is identified by the *)
(* number of the training run that made it; pickle.dump and pickle.load    *)
(* carry that identity through the file.                                   *)

None == 0

\* Python truth of a cached object: None is false, an MLP or a compiled function true
Truthy(x) == x # None

NoModelFile(how) == [state |-> how, classifier |-> None]

ModelFile(c) == [state |-> "ok", classifier |-> c]

\* the caches, the file and the training counter, threaded through the calls;
\* raised says that an exception is propagating
Cache ==
    [classifier |-> _classifier, predict_model |-> _predict_model,
     best_model |-> best_model, nextId |-> nextId, trained |-> trained,
     raised |-> FALSE, value |-> None]

\* an update that writes the file and leaves the module's _classifier alone
_update_classifier_file_only(m, classifier) ==
    IF writable
    THEN [m EXCEPT !.best_model = ModelFile(classifier)]
    ELSE [m EXCEPT !.raised = TRUE]

\* lines 605-609
_update_classifier(m, classifier) ==
    LET cached == [m EXCEPT !.classifier = classifier]
    IN  IF writable
        THEN [cached EXCEPT !.best_model = ModelFile(classifier)]
        ELSE [cached EXCEPT !.raised = TRUE]

\* lines 589-593; _construct_mlp returns the classifier numbered m.nextId
reconstruct_model_in(m, dry_run) ==
    LET classifier == m.nextId
        built == [m EXCEPT !.nextId = @ + 1, !.trained = classifier]
    IN  IF ~dry_run THEN _update_classifier(built, classifier) ELSE built

\* pickle.load(open(_best_model_path, 'rb'))
PickleLoad(m) ==
    IF m.best_model.state = "ok"
    THEN [m EXCEPT !.value = m.best_model.classifier]
    ELSE [m EXCEPT !.raised = TRUE]

\* a load that gives up at the first failure
_load_classifier_no_rebuild(m) == PickleLoad(m)

\* a load that reconstructs a second time when the reconstruction raises
_load_classifier_retry(m) ==
    LET first == PickleLoad(m)
    IN  IF ~first.raised THEN first
        ELSE LET rebuilt == reconstruct_model_in(m, FALSE)
             IN  IF rebuilt.raised
                 THEN reconstruct_model_in([rebuilt EXCEPT !.raised = FALSE], FALSE)
                 ELSE PickleLoad(rebuilt)

\* lines 596-602
_load_classifier(m) ==
    LET first == PickleLoad(m)
    IN  IF ~first.raised THEN first
        ELSE LET rebuilt == reconstruct_model_in(m, FALSE)
             IN  IF rebuilt.raised THEN rebuilt ELSE PickleLoad(rebuilt)

\* lines 616-620
_get_classifier(m) ==
    IF ~Truthy(m.classifier)
    THEN LET loaded == _load_classifier(m)
         IN  IF loaded.raised THEN loaded
             ELSE [loaded EXCEPT !.classifier = loaded.value]
    ELSE [m EXCEPT !.value = m.classifier]

\* a getter that compiles the function anew on every call
_get_predict_model_recompile(m) ==
    LET got == _get_classifier(m)
    IN  IF got.raised THEN got
        ELSE [got EXCEPT !.predict_model = got.value, !.value = got.value]

\* lines 623-632; the compiled function computes with the classifier it was built from
_get_predict_model(m) ==
    IF ~Truthy(m.predict_model)
    THEN LET got == _get_classifier(m)
         IN  IF got.raised THEN got
             ELSE [got EXCEPT !.predict_model = got.value, !.value = got.value]
    ELSE [m EXCEPT !.value = m.predict_model]

StoreCache(m) ==
    /\ _classifier' = m.classifier
    /\ _predict_model' = m.predict_model
    /\ best_model' = m.best_model
    /\ nextId' = m.nextId
    /\ trained' = m.trained

\* lines 582-586
predict ==
    LET m == _get_predict_model(Cache)
    IN  /\ m.nextId <= MaxClassifiers + 1
        /\ StoreCache(m)
        /\ mop' = IF m.raised THEN "predict raised" ELSE "predict"
        /\ used' = IF m.raised THEN None ELSE m.value
        /\ UNCHANGED <<writable, dataVars, runVars, fetchVars, libVars>>

reconstruct_model(dry_run) ==
    LET m == reconstruct_model_in(Cache, dry_run)
    IN  /\ m.nextId <= MaxClassifiers + 1
        /\ StoreCache(m)
        /\ mop' = IF m.raised THEN "reconstruct_model raised"
                  ELSE IF dry_run THEN "reconstruct_model dry_run"
                  ELSE "reconstruct_model"
        /\ used' = None
        /\ UNCHANGED <<writable, dataVars, runVars, fetchVars, libVars>>

\* the permissions of _best_model_path change outside the program
SetWritable(w) ==
    /\ writable # w
    /\ writable' = w
    /\ mop' = "none"
    /\ UNCHANGED <<_classifier, _predict_model, best_model, nextId, trained, used,
                   dataVars, runVars, fetchVars, libVars>>

\* the best-model file is deleted or damaged outside the program
ModelFileLost(how) ==
    /\ best_model.state = "ok"
    /\ best_model' = NoModelFile(how)
    /\ mop' = "none"
    /\ UNCHANGED <<_classifier, _predict_model, writable, nextId, trained, used,
                   dataVars, runVars, fetchVars, libVars>>

----------------------------------------------------------------------------
(* Loading character images: get_training_char_images and _get_images.    *)

\* fail_char.txt lines listed by the operator
MaxExcluded == 2

\* num=None, and num=k
NoNum == <<>>
Num(k) == <<k>>

NoRequest == [kind |-> "none", char |-> 0, num |-> NoNum, raised |-> FALSE]

_png == ".png"

\* the file name '{sequence}.{i}.png'
FileName(s, i) == [basename |-> <<s, i>>, ext |-> _png]

\* os.path.splitext(filename)[0]
_remove_suffix(filename) == filename.basename

\* os.path.splitext(filename)[1]
_get_suffix(filename) == filename.ext

\* the names in _get_training_char_dir(char)
CharDir(char) == {FileName(f[2], f[3]) : f \in {g \in training_char : g[1] = char}}

png_filter(filename) == _get_suffix(filename) = _png

\* given os.listdir(directory)
_list_png(listdir) == SelectSeq(listdir, png_filter)

\* a filter that excludes nothing
filename_filter_all(filename) == TRUE

\* lines 190-191
filename_filter(filename) == _remove_suffix(filename) \notin _fail_char_set

\* `if num:`
NumTruthy(num) == num # NoNum /\ num[1] # 0

\* _get_images without the cap of lines 139-140
_get_images_uncapped(filenames, num, shuffled) ==
    LET n == IF NumTruthy(num) THEN num[1] ELSE Len(filenames)
        names == IF NumTruthy(num) THEN shuffled ELSE filenames
    IN  IF n > Len(names) THEN [raised |-> TRUE, value |-> <<>>]
        ELSE [raised |-> FALSE, value |-> SubSeq(names, 1, n)]

\* lines 138-152, given the filtered list of line 137 and the order
\* random.shuffle leaves it in; filenames[i] past the end raises IndexError
_get_images(filenames, num, shuffled) ==
    LET capped == NumTruthy(num) /\ num[1] > Len(filenames)
        shuffle == NumTruthy(num) /\ ~capped
        n == IF shuffle THEN num[1] ELSE Len(filenames)
        names == IF shuffle THEN shuffled ELSE filenames
    IN  IF n > Len(names) THEN [raised |-> TRUE, value |-> <<>>]
        ELSE [raised |-> FALSE, value |-> SubSeq(names, 1, n)]

\* lines 189-197
get_training_char_images(char, num) ==
    /\ \E listdir \in ListOrders(CharDir(char)) :
          \E filenames \in {SelectSeq(_list_png(listdir), filename_filter)} :
             \E shuffled \in ListOrders(Range(filenames)) :
                \E r \in {_get_images(filenames, num, shuffled)} :
                   /\ images' = r.value
                   /\ request' = [kind |-> "get_training_char_images",
                                  char |-> char, num |-> num, raised |-> r.raised]
    /\ UNCHANGED <<_fail_char_set, dataVars, runVars, fetchVars, modelVars, trainVars>>

----------------------------------------------------------------------------
(* The training loop of _construct_mlp (captcha_learn.py, lines 485-548). *)

\* largest n_epochs passed to _construct_mlp
MaxEpochs == 2

\* line 485
initial_patience == 10000
\* line 486
patience_increase == 2
\* line 487, in thousandths
improvement_threshold == 995

\* numpy.inf, and a loss of v thousandths
inf == <<>>
Loss(v) == <<v>>

\* the mean validation losses the data may give, in thousandths
ValidationLosses == {0, 199, 200}

\* the numbers of training batches tried (line 392)
TrainBatches == {0, 1, 2, 5001, 6000}

\* theano.tensor.lt(a, b): the symbolic expression a < b; nothing is compared
T_lt(a, b) == [op |-> "lt", inputs |-> <<a, b>>]

\* the truth value Python's `if` takes of a theano variable: the variable that
\* T.lt returns is true whatever its inputs are
Bool(variable) == TRUE

\* lines 490-493
ValidationFrequency(batches, pat) ==
    IF Bool(T_lt(batches, pat \div 2)) THEN batches ELSE pat \div 2

\* this_validation_loss < best_validation_loss (line 527)
LossLess(this, best) == best = inf \/ this[1] < best[1]

\* this_validation_loss < best_validation_loss * improvement_threshold (line 529)
LossSignificant(this, best) ==
    best = inf \/ 1000 * this[1] < improvement_threshold * best[1]

Max(a, b) == IF a >= b THEN a ELSE b

\* a loop that never takes the break of lines 546-548
StopNever(pat, iteration) == FALSE

\* line 546
StopNow(pat, iteration) == pat <= iteration

\* lines 485-503
StartTraining(epochs, batches) ==
    /\ tpc = "idle"
    /\ tpc' = "while"
    /\ n_epochs' = epochs
    /\ n_train_batches' = batches
    /\ patience' = initial_patience
    /\ validation_frequency' = ValidationFrequency(batches, initial_patience)
    /\ best_validation_loss' = inf
    /\ epoch' = 0
    /\ minibatch_index' = 0
    /\ done_looping' = FALSE
    /\ updates' = 0
    /\ UNCHANGED <<dataVars, runVars, fetchVars, modelVars, imageVars>>

\* lines 505-507: the test of the while loop, `epoch += 1` and the start of the
\* for loop, which has nothing to run when n_train_batches is 0
WhileTest ==
    /\ tpc = "while"
    /\ IF epoch < n_epochs /\ ~done_looping
         THEN /\ epoch' = epoch + 1
              /\ minibatch_index' = 0
              /\ tpc' = IF n_train_batches > 0 THEN "for" ELSE "while"
         ELSE /\ tpc' = "done"
              /\ UNCHANGED <<epoch, minibatch_index>>
    /\ UNCHANGED <<n_epochs, n_train_batches, validation_frequency, patience,
                   best_validation_loss, done_looping, updates>>
    /\ UNCHANGED <<dataVars, runVars, fetchVars, modelVars, imageVars>>

\* lines 507-548: one minibatch
Minibatch ==
    /\ tpc = "for"
    /\ LET iteration == (epoch - 1) * n_train_batches + minibatch_index
           validate == (iteration + 1) % validation_frequency = 0
       IN  \E this \in IF validate THEN {Loss(v) : v \in ValidationLosses} ELSE {inf} :
              LET better == validate /\ LossLess(this, best_validation_loss)
                  significant == better /\ LossSignificant(this, best_validation_loss)
                  p == IF significant
                       THEN Max(patience, iteration * patience_increase)
                       ELSE patience
              IN  /\ updates' = updates + 1
                  /\ patience' = p
                  /\ best_validation_loss' = IF better THEN this
                                             ELSE best_validation_loss
                  /\ IF StopNow(p, iteration)
                       THEN /\ done_looping' = TRUE
                            /\ tpc' = "while"
                            /\ UNCHANGED minibatch_index
                       ELSE IF minibatch_index + 1 < n_train_batches
                       THEN /\ minibatch_index' = minibatch_index + 1
                            /\ UNCHANGED <<tpc, done_looping>>
                       ELSE /\ tpc' = "while"
                            /\ UNCHANGED <<minibatch_index, done_looping>>
    /\ UNCHANGED <<n_epochs, n_train_batches, validation_frequency, epoch>>
    /\ UNCHANGED <<dataVars, runVars, fetchVars, modelVars, imageVars>>

----------------------------------------------------------------------------
(* Initial states: empty stores, no ledger, empty caches (lines 612-613)   *)
(* and no best-model file.                                                 *)

InitDataWith(char_files) ==
    /\ training_set = [l \in Labels |-> NoFile]
    /\ test_set = [l \in Labels |-> NoFile]
    /\ training_char = char_files
    /\ ledgerState = "missing"
    /\ json_dict = EmptyDict
    /\ run = NoRun
    /\ segmented = {}
    /\ written = {}
    /\ nWritten = 0
    /\ processed = {}
    /\ fpc = "idle"
    /\ directory = TRAINING
    /\ left = 0
    /\ img = NoFile
    /\ seq = NoSeq
    /\ nInvalid = 0
    /\ preceding = 0
    /\ rawIsSkip = FALSE
    /\ calls = <<>>
    /\ saved = {}

InitData == InitDataWith({})

InitCache(file) ==
    /\ _classifier = None
    /\ _predict_model = None
    /\ best_model = file
    /\ nextId = IF file.state = "ok" THEN file.classifier + 1 ELSE 1
    /\ writable = TRUE
    /\ mop = "none"
    /\ trained = None
    /\ used = None

\* no exclusions, no call of get_training_char_images yet
InitImages(excluded) ==
    /\ _fail_char_set = excluded
    /\ request = NoRequest
    /\ images = <<>>

\* _construct_mlp is not running
InitTrain ==
    /\ tpc = "idle"
    /\ n_epochs = 0
    /\ n_train_batches = 0
    /\ validation_frequency = 0
    /\ patience = 0
    /\ best_validation_loss = inf
    /\ epoch = 0
    /\ minibatch_index = 0
    /\ done_looping = FALSE
    /\ updates = 0

Init == InitData /\ InitCache(NoModelFile("absent")) /\ InitImages({}) /\ InitTrain

\* the partition driver and the operations that change what it reads
Next ==
    \/ \E force_update, save \in BOOLEAN :
          partition_training_images_to_chars(force_update, save)
    \/ \E raw \in RawInputs, image \in Images : AcquireTrainingImage(raw, image)
    \/ clear_training_set
    \/ clear_training_chars
    \/ \E how \in {"missing", "corrupt"} : LedgerLost(how)

Spec == Init /\ [][Next]_vars

\* partition runs and the grid search, with images added and no clear_* operation
NextTune ==
    \/ \E force_update, save \in BOOLEAN :
          partition_training_images_to_chars(force_update, save)
    \/ tune_partition_parameter
    \/ \E raw \in RawInputs, image \in Images : AcquireTrainingImage(raw, image)

SpecTune == Init /\ [][NextTune]_vars

\* the acquisition loop and the operations on its stores
NextFetch ==
    \/ \E num \in 0..MaxNum : fetch_training_set(num)
    \/ \E num \in 0..MaxNum : fetch_test_set(num)
    \/ \E raw \in RawInputs : Input(raw)
    \/ FetchReturn
    \/ clear_training_set
    \/ clear_test_set
    \/ clear_dataset

SpecFetch == Init /\ [][NextFetch]_vars

\* the model cache
NextModel ==
    \/ predict
    \/ \E dry_run \in BOOLEAN : reconstruct_model(dry_run)
    \/ \E w \in BOOLEAN : SetWritable(w)
    \/ \E how \in {"absent", "corrupt"} : ModelFileLost(how)

\* a process may also start with a best-model file that is damaged or that an
\* earlier process left
InitModel ==
    /\ InitData
    /\ InitImages({})
    /\ InitTrain
    /\ \E file \in {NoModelFile("absent"), NoModelFile("corrupt"), ModelFile(1)} :
          InitCache(file)

SpecModel == InitModel /\ [][NextModel]_vars

\* the per-character stores after the labels of S were segmented and saved
CharFiles(S) == {_get_training_char_path(s[i], s, i) : s \in S, i \in 1..seq_length}

\* the stems fail_char.txt may list
Stems == {<<s, i>> : s \in InputLabels, i \in 1..seq_length}

\* a process that starts with character images of earlier runs in the stores and
\* with some of them listed in fail_char.txt (lines 29-30)
InitStored ==
    /\ \E S \in SUBSET InputLabels : InitDataWith(CharFiles(S))
    /\ InitCache(NoModelFile("absent"))
    /\ \E excluded \in {E \in SUBSET Stems : Cardinality(E) <= MaxExcluded} :
          InitImages(excluded)
    /\ InitTrain

NextImages ==
    \E char \in Chars, num \in {NoNum} \cup {Num(k) : k \in 0..(MaxNum + 1)} :
       get_training_char_images(char, num)

SpecImages == InitStored /\ [][NextImages]_vars

\* one run of the training loop
NextTrain ==
    \/ \E epochs \in 0..MaxEpochs, batches \in TrainBatches :
          StartTraining(epochs, batches)
    \/ WhileTest
    \/ Minibatch

SpecTrain == Init /\ [][NextTrain]_vars

----------------------------------------------------------------------------
(* Properties of the partition driver, under Spec. *)

\* the labels the ledger records
Recorded(jd) == Range(jd.success) \cup Range(jd.fail)

\* occurrences of the character c in the string s
Occ(c, s) == Cardinality({k \in DOMAIN s : s[k] = c})

\* occurrences of c in all the strings of S
RECURSIVE SumOcc(_, _)
SumOcc(c, S) ==
    IF S = {} THEN 0
    ELSE LET s == CHOOSE x \in S : TRUE IN Occ(c, s) + SumOcc(c, S \ {s})

\* the step is a run of the driver that wrote the ledger
PartitionRan == run'.kind = "partition"

\* the run was incremental: force_update false and the ledger readable
IncrementalRan == PartitionRan /\ ~run'.force_update /\ ledgerState = "ok"

\* C1: in every persisted ledger the success and fail lists have no label in
\* common, neither holds a label twice, together they hold exactly the labels
\* processed since the lists were last reset, and both are sorted.
C1_ListsPartitionProcessed ==
    ledgerState = "ok" =>
        /\ Range(json_dict.success) \cap Range(json_dict.fail) = {}
        /\ NoDuplicates(json_dict.success)
        /\ NoDuplicates(json_dict.fail)
        /\ Recorded(json_dict) = processed
        /\ IsSorted(json_dict.success)
        /\ IsSorted(json_dict.fail)

\* an incremental run has added a label to an existing ledger, both lists hold
\* labels, and the training store has lost a label the ledger still records
C1_Witness ==
    /\ run.kind = "partition" /\ ~run.force_update /\ ~run.rebuilt
    /\ segmented # {} /\ segmented # processed
    /\ json_dict.success # <<>> /\ json_dict.fail # <<>>
    /\ ~(processed \subseteq TrainingLabels)

\* C2: an incremental run segments and counts exactly the training-store labels
\* in neither list of the ledger; a run with force_update set resets the lists
\* and the counters and segments and counts every label of the training store.
C2_Step ==
    /\ IncrementalRan =>
          /\ segmented' = TrainingLabels \ Recorded(json_dict)
          /\ Recorded(json_dict') = Recorded(json_dict) \cup segmented'
          /\ \A c \in Chars :
                json_dict'.num[c][2] = json_dict.num[c][2] + SumOcc(c, segmented')
    /\ (PartitionRan /\ run'.force_update) =>
          /\ segmented' = TrainingLabels
          /\ Recorded(json_dict') = TrainingLabels
          /\ \A c \in Chars :
                /\ json_dict'.num[c][2] = SumOcc(c, TrainingLabels)
                /\ json_dict'.num[c][1] = SumOcc(c, Range(json_dict'.success))

C2_ProcessesUnrecordedOnly == [][C2_Step]_vars

\* a forced run has processed again a label an earlier run had counted
C2_Witness ==
    /\ run.kind = "partition" /\ run.force_update /\ ~run.rebuilt
    /\ Cardinality(segmented) >= 2
    /\ \E c \in Chars : json_dict.num[c][2] >= 2

\* C3: no counter of a character decreases in an incremental run, and in every
\* persisted ledger success_count <= total_count.
C3_Step ==
    /\ IncrementalRan =>
          \A c \in Chars :
             /\ json_dict'.num[c][1] >= json_dict.num[c][1]
             /\ json_dict'.num[c][2] >= json_dict.num[c][2]
    /\ ledgerState' = "ok" =>
          \A c \in Chars : json_dict'.num[c][1] <= json_dict'.num[c][2]

C3_CountersMonotone == [][C3_Step]_vars

\* an incremental run has raised counters that were already positive, one
\* sequence having failed and one succeeded
C3_Witness ==
    /\ run.kind = "partition" /\ ~run.force_update /\ ~run.rebuilt
    /\ segmented # {} /\ segmented # processed
    /\ \E c \in Chars : 0 < json_dict.num[c][1] /\ json_dict.num[c][1] < json_dict.num[c][2]

\* C4: after a run the ledger's "###total" is the number of labels in the
\* training store, "##success" the length of the success list, and
\* "##success" + "##fail" = "###total".
C4_AggregateCounts ==
    run.kind = "partition" =>
        /\ json_dict.total = Cardinality(TrainingLabels)
        /\ json_dict.nsuccess = Len(json_dict.success)
        /\ json_dict.nsuccess + json_dict.nfail = json_dict.total

\* a run on a training store that holds fewer labels than the ledger records
C4_Witness ==
    /\ run.kind = "partition"
    /\ json_dict.total >= 1
    /\ json_dict.nsuccess >= 1
    /\ json_dict.total < Len(json_dict.success) + Len(json_dict.fail)

\* C5: a run that cannot load the ledger does not fail, whatever force_update
\* was passed: it processes every label of the training store from empty lists
\* and zero counters and writes a complete ledger.
C5_Step ==
    (ledgerState # "ok" /\ run'.kind # "none") =>
        /\ run'.kind = "partition"
        /\ ledgerState' = "ok"
        /\ json_dict'.keys
        /\ segmented' = TrainingLabels
        /\ Recorded(json_dict') = TrainingLabels
        /\ \A c \in Chars :
              /\ json_dict'.num[c][2] = SumOcc(c, TrainingLabels)
              /\ json_dict'.num[c][1] = SumOcc(c, Range(json_dict'.success))
        /\ json_dict'.total = Cardinality(TrainingLabels)
        /\ json_dict'.nsuccess + json_dict'.nfail = json_dict'.total

C5_UnreadableLedgerRebuilt == [][C5_Step]_vars

\* a run with force_update false has rebuilt the ledger from a training store
\* of two labels
C5_Witness ==
    /\ run.kind = "partition" /\ run.rebuilt /\ ~run.force_update
    /\ Cardinality(segmented) >= 2

\* the character files of the sequences a run segmented with success
ExpectedFiles(jd, segs) ==
    {_get_training_char_path(s[i], s, i) :
        s \in segs \cap Range(jd.success), i \in 1..seq_length}

\* C6: a run with save false writes no character file; a run with save true
\* writes, for each sequence it segments with success, the seq_length files
\* {sequence}.{i}.png, the i-th in the store of the i-th character, and none
\* for a sequence that fails.
C6_Step ==
    PartitionRan =>
        IF run'.save
        THEN /\ written' = ExpectedFiles(json_dict', segmented')
             /\ nWritten' = seq_length * Cardinality(segmented' \cap Range(json_dict'.success))
             /\ training_char' = training_char \cup written'
        ELSE /\ written' = {}
             /\ nWritten' = 0
             /\ training_char' = training_char

C6_CharFilesWritten == [][C6_Step]_vars

\* a saving run has segmented one sequence with success and failed on another
C6_Witness ==
    /\ run.kind = "partition" /\ run.save
    /\ segmented \cap Range(json_dict.success) # {}
    /\ segmented \cap Range(json_dict.fail) # {}
    /\ nWritten = seq_length

----------------------------------------------------------------------------
(* Properties of the acquisition loop, under SpecFetch. *)

\* the store the running call fills
TargetStore == IF directory = TRAINING THEN training_set ELSE test_set

\* the loop leaves the current image: the next one is shown, or the loop is over
NextImage ==
    IF left > 0
    THEN fpc' = "prompt" /\ left' = left - 1 /\ nInvalid' = 0
    ELSE fpc' = "done"

\* C7: an input that is the literal "0" writes no file and is handed neither to
\* canonicalize_seq nor to is_valid_seq, however many invalid inputs came
\* before it for the same image, and the loop goes on with the next image.
C7_Step ==
    (fpc = "prompt" /\ rawIsSkip') =>
        /\ training_set' = training_set
        /\ test_set' = test_set
        /\ saved' = {}
        /\ calls' = <<>>
        /\ NextImage

C7_SkipWritesNothing == [][C7_Step]_vars

\* the operator has skipped an image after an invalid input for it, and the
\* next image is shown
C7_Witness ==
    /\ rawIsSkip /\ preceding >= 1
    /\ fpc = "prompt" /\ nInvalid = 0

\* C8: when the valid canonical label typed already names a file of the target
\* store, the input changes no store and the loop goes on with the next image;
\* an input writes a file only when its label is valid and names no file, and
\* then writes {label}.png alone; no existing file is ever overwritten.
C8_Step ==
    fpc = "prompt" =>
        /\ (~rawIsSkip' /\ is_valid_seq(seq') /\ TargetStore[seq'] # NoFile) =>
              /\ training_set' = training_set
              /\ test_set' = test_set
              /\ saved' = {}
              /\ NextImage
        /\ (training_set' # training_set \/ test_set' # test_set \/ saved' # {}) =>
              /\ ~rawIsSkip'
              /\ is_valid_seq(seq')
              /\ TargetStore[seq'] = NoFile
              /\ TargetStore' = [TargetStore EXCEPT ![seq'] = img]
              /\ saved' = {seq'}
              /\ directory = TRAINING => test_set' = test_set
              /\ directory = TEST => training_set' = training_set
        /\ \A l \in Labels :
              /\ training_set[l] # NoFile => training_set'[l] = training_set[l]
              /\ test_set[l] # NoFile => test_set'[l] = test_set[l]

C8_NoOverwrite == [][C8_Step]_vars

\* the last input of a call was a valid label whose file exists with another
\* content than the image shown, and nothing was saved
C8_Witness ==
    /\ fpc = "done" /\ ~rawIsSkip
    /\ is_valid_seq(seq) /\ calls # <<>> /\ saved = {}
    /\ TargetStore[seq] # NoFile /\ TargetStore[seq] # img

----------------------------------------------------------------------------
(* Properties of the model cache, under SpecModel. *)

\* C9: when reconstruct_model(dry_run=False) returns, the cached classifier is
\* the classifier just trained and the best-model file holds it, whatever the
\* file held before; reconstruct_model(dry_run=True) changes neither the cached
\* classifier nor the file.
C9_Step ==
    /\ mop' = "reconstruct_model" =>
          /\ trained' = nextId
          /\ _classifier' = trained'
          /\ best_model' = ModelFile(trained')
    /\ mop' = "reconstruct_model dry_run" =>
          /\ trained' = nextId
          /\ _classifier' = _classifier
          /\ best_model' = best_model

C9_ReconstructUpdatesCacheAndFile == [][C9_Step]_vars

\* reconstruct_model() has replaced a cached classifier and the file of an
\* earlier classifier
C9_Witness ==
    /\ mop = "reconstruct_model"
    /\ trained >= 2
    /\ Truthy(_predict_model) /\ _predict_model # trained

\* C10: the prediction function is compiled by the first predict, from the
\* classifier cached or loaded then, and used by every later predict; no call,
\* reconstruct_model included, replaces it, and a predict that finds a cached
\* classifier leaves that classifier in place.
C10_Step ==
    /\ Truthy(_predict_model) => _predict_model' = _predict_model
    /\ mop' = "predict" =>
          /\ used' = _predict_model'
          /\ Truthy(_predict_model) => used' = _predict_model
          /\ Truthy(_classifier) => _classifier' = _classifier
          /\ (~Truthy(_predict_model) /\ Truthy(_classifier)) =>
                _predict_model' = _classifier

C10_PredictFunctionCompiledOnce == [][C10_Step]_vars

\* a predict after reconstruct_model has computed with the classifier cached at
\* the first predict, not with the classifier cached now
C10_Witness ==
    /\ mop = "predict"
    /\ Truthy(used) /\ Truthy(_classifier)
    /\ used # _classifier
    /\ _classifier = trained

\* the step is a predict that has to load the classifier from a best-model
\* file that is absent or damaged
LoadsUnloadable ==
    /\ mop' \in {"predict", "predict raised"}
    /\ ~Truthy(_predict_model)
    /\ ~Truthy(_classifier)
    /\ best_model.state # "ok"

\* C11 as stated: a first use of the model that finds the best-model file
\* absent or damaged does not fail the caller.
C11_Original_Step == LoadsUnloadable => mop' = "predict"

C11_Original == [][C11_Original_Step]_vars

\* C11, amended: when the model path can be written, a first use that finds
\* the file absent or damaged does not fail: it trains one classifier, writes
\* it to the file, loads it back, caches it and computes with it.
C11_Step ==
    (LoadsUnloadable /\ writable) =>
        /\ mop' = "predict"
        /\ nextId' = nextId + 1
        /\ trained' = nextId
        /\ best_model' = ModelFile(nextId)
        /\ _classifier' = nextId
        /\ _predict_model' = nextId
        /\ used' = nextId

C11_UnloadableFileRebuilt == [][C11_Step]_vars

\* a predict has rebuilt a damaged best-model file and computed with the
\* classifier it trained
C11_Witness ==
    /\ mop = "predict"
    /\ Truthy(used) /\ used = trained /\ nextId = used + 1
    /\ best_model = ModelFile(used)
    /\ _classifier = used

\* C12 as stated: when the model path cannot be written, a load of an absent
\* or damaged file does not end with an error after a bounded number of
\* reconstructions.
C12_Original_Step ==
    (LoadsUnloadable /\ ~writable) =>
        ~(mop' = "predict raised" /\ nextId' - nextId <= MaxClassifiers)

C12_Original == [][C12_Original_Step]_vars

\* C12, amended: when the model path cannot be written, a load of an absent or
\* damaged file reconstructs once and ends with the error of the write: one
\* classifier is trained and left in the cache, the file is not changed and no
\* prediction function is compiled.
C12_Step ==
    (LoadsUnloadable /\ ~writable) =>
        /\ mop' = "predict raised"
        /\ nextId' = nextId + 1
        /\ _classifier' = nextId
        /\ best_model' = best_model
        /\ _predict_model' = None

C12_OneReconstructionThenError == [][C12_Step]_vars

\* a predict has raised after one reconstruction that could not write the file
C12_Witness ==
    /\ mop = "predict raised"
    /\ ~writable
    /\ best_model.state # "ok"
    /\ Truthy(_classifier) /\ _classifier = trained
    /\ ~Truthy(_predict_model)

----------------------------------------------------------------------------
(* Properties of image loading, under SpecImages. *)

\* the files of char's store that fail_char.txt does not list
Eligible(char) == {f \in CharDir(char) : _remove_suffix(f) \notin _fail_char_set}

Requested == request.kind = "get_training_char_images"

\* C13: get_training_char_images never returns an image whose filename stem is
\* in the exclusion set, whatever num is, and the count num is capped at is the
\* count after exclusion: a num above the number of eligible files returns all
\* the eligible files and raises nothing
C13_NeverReturnsExcluded ==
    Requested =>
       /\ \A k \in DOMAIN images : _remove_suffix(images[k]) \notin _fail_char_set
       /\ (NumTruthy(request.num)
             /\ request.num[1] > Cardinality(Eligible(request.char)))
          => (~request.raised /\ Range(images) = Eligible(request.char))

\* a call with num between the number of eligible files and the number stored
C13_Witness ==
    /\ Requested
    /\ NumTruthy(request.num)
    /\ request.num[1] > Cardinality(Eligible(request.char))
    /\ request.num[1] <= Cardinality(CharDir(request.char))
    /\ images # <<>>

\* C14: a request for num images from a store with n eligible images returns
\* exactly min(num, n) images, distinct files of the store, and never raises;
\* num absent or 0 returns all n
C14_ReturnsMinOfNumAndStored ==
    Requested =>
       LET n == Cardinality(Eligible(request.char))
           num == request.num
       IN  /\ ~request.raised
           /\ Len(images) = IF ~NumTruthy(num) THEN n
                            ELSE IF num[1] < n THEN num[1] ELSE n
           /\ NoDuplicates(images)
           /\ Range(images) \subseteq Eligible(request.char)

\* a call with num above the number of eligible files, of which there are some
C14_Witness ==
    /\ Requested
    /\ NumTruthy(request.num)
    /\ request.num[1] > Cardinality(Eligible(request.char))
    /\ Cardinality(Eligible(request.char)) > 1
    /\ Len(images) = Cardinality(Eligible(request.char))

----------------------------------------------------------------------------
(* Properties of the training loop, under SpecTrain. *)

\* the global iteration counter of the minibatch being run (line 510)
Iteration == (epoch - 1) * n_train_batches + minibatch_index

\* an upper bound of the steps the loop has left
Remaining ==
    IF tpc = "for"
    THEN (n_epochs - epoch) * (n_train_batches + 1)
            + (n_train_batches - minibatch_index) + 1
    ELSE IF tpc = "while" THEN (n_epochs - epoch) * (n_train_batches + 1) + 1
    ELSE 0

Looping == tpc \in {"while", "for"}

C15_Step ==
    /\ Looping => (Remaining' < Remaining /\ Remaining' >= 0)
    /\ updates' <= n_epochs' * n_train_batches'
    /\ tpc = "for" => /\ updates' = updates + 1
                      /\ done_looping' <=> patience' <= Iteration
                      /\ done_looping' => tpc' = "while"
    /\ tpc = "while" => /\ updates' = updates
                        /\ tpc' = "done" <=> (done_looping \/ epoch >= n_epochs)

\* C15: the training loop always terminates: every step of the loop lowers a
\* bound of the steps left and the loop can always take a step; it stops at the
\* first minibatch whose iteration counter has reached the current patience, or
\* when n_epochs epochs have run; it never makes more than
\* n_epochs * n_train_batches updates, also when patience is extended and when
\* n_train_batches is 0
C15_TrainingLoopTerminates ==
    /\ [][C15_Step]_vars
    /\ [](Looping => ENABLED (WhileTest \/ Minibatch))

\* a loop that extended its patience and then stopped on it before the epochs
\* were used up
C15_Witness ==
    /\ tpc = "done"
    /\ done_looping
    /\ patience > initial_patience
    /\ updates < n_epochs * n_train_batches

\* C16: for every number of training batches, also above 5000, the validation
\* frequency is the smaller of n_train_batches and patience / 2 = 5000
C16_ValidationFrequencyIsMin ==
    tpc # "idle" =>
       validation_frequency =
          IF n_train_batches < initial_patience \div 2 THEN n_train_batches
          ELSE initial_patience \div 2

----------------------------------------------------------------------------
(* Properties of the ledger over sequences of runs. *)

\* C17: under SpecTune (partition runs with any force_update and save, the grid
\* search, no clear_* operation) every label in the success list has its
\* seq_length character images in the per-character stores
C17_SuccessLabelsHaveCharImages ==
    \A s \in Range(json_dict.success) :
       \A i \in 1..seq_length : _get_training_char_path(s[i], s, i) \in training_char

\* C18: under Spec (runs interleaved with additions and removals of training
\* images) after a run "##fail" is the length of the fail list and is not
\* negative, and the returned success rate num_total_success / num_total lies
\* between 0 and 1
C18_FailCountAndRateInRange ==
    run.kind = "partition" =>
       /\ json_dict.nfail = Len(json_dict.fail)
       /\ json_dict.nfail >= 0
       /\ json_dict.total # 0 =>
             (0 <= json_dict.nsuccess /\ json_dict.nsuccess <= json_dict.total)

====
